---- MODULE Spec2Model ----
(***************************************************************************)
(* Second Screen (secondScreen_ws.py): the shared, reference-counted       *)
(* ScreenCapture, its adaptive JPEG quality controller, the worker pool    *)
(* that runs capture+encode jobs, and the two per-client delivery loops    *)
(* (raw length-prefixed socket, WebSocket with pipelining), with the       *)
(* framing of a record, the pacing at the end of a loop cycle and the      *)
(* pointer overlay of _draw_cursor as functions of their inputs, the       *)
(* choice of the capture backend and of its output in __init__, and the    *)
(* per-thread handles of the fallback backend.                             *)
(*                                                                         *)
(* All coroutines run on one asyncio event loop, so the code between two   *)
(* suspension points (await of a worker future, of a write, of a sleep, of *)
(* another task) is atomic: every action below is one such segment.  The   *)
(* jobs of the ThreadPoolExecutor run on their own threads and interleave  *)
(* freely with the segments.                                               *)
(***************************************************************************)
EXTENDS Integers, FiniteSets, Sequences

VARIABLES
    CONFIG,              \* the CONFIG dict after main() has parsed the arguments
    display,             \* the machine: the capture backends and what they can do
    encoder,             \* the codec on the current screen content: size as a function of quality
    _shared_capture,     \* the global: None, or the live ScreenCapture object
    _capture_ref_count,  \* the global reference count
    created,             \* number of ScreenCapture objects constructed so far
    shutdowns,           \* per ScreenCapture object: number of shutdown() calls on it
    pc,                  \* per client: the suspension point its handler is at
    capture,             \* per client: the local `capture` (id of the object it was handed)
    task,                \* per WebSocket client: the state of its next_frame_task
    job,                 \* per client: its capture+encode job on the worker pool
    released,            \* per client: number of release_shared_capture() calls it made
    transport,           \* per client: what its writer or ws was given and is sending
    peer,                \* per client: the far end of its connection
    calls,               \* per client: its capture_frame_async() calls, as issued and sent
    pace,                \* the end of a loop cycle: elapsed time and the sleep it leads to
    cursor               \* a frame under _draw_cursor: geometry, pointer, polygon drawn

vars == <<CONFIG, display, encoder, _shared_capture, _capture_ref_count, created,
          shutdowns, pc, capture, task, job, released, transport, peer, calls, pace,
          cursor>>

----------------------------------------------------------------------------
(* Bounds of the model *)

\* client connections the server accepts during a run
NumClients == 2
\* frames after which the one-second bandwidth window has certainly been reset
MaxWindowFrames == 2
\* produce calls since the last frame sent that are told apart (this many or more)
MaxSince == 2
\* outputs the probing of dxcam finds, at most
MaxOutputs == 3
\* largest --monitor argument tried
MaxMonitor == 5

(* Program constants *)

\* ThreadPoolExecutor(max_workers=2)
PoolSize == 2
\* max(20, quality - 5)
MinQuality == 20
QualityDownStep == 5
\* min(base_quality, quality + 2)
QualityUpStep == 2

Clients == 1..NumClients
None == [id |-> 0]

\* --quality values tried (main clamps the argument to 1..100)
BaseQualities == {10, 22}
\* --fps and --bandwidth values tried: target frame size 500/50 = 10 KB
FpsChoices == {50}
BandwidthChoices == {500}
\* lengths in bytes of the encoded frames a job can return: b"", a frame below the
\* band around the target size and one above it
FrameSizes == {0, 5000, 20000}

----------------------------------------------------------------------------
(* ScreenCapture *)

\* CONFIG["monitor_index"]: None (--monitor not given) or the integer given
Unset == [set |-> FALSE, n |-> 0]
Monitor(n) == [set |-> TRUE, n |-> n]

\* monitor_index=CONFIG["monitor_index"] or 0, as get_shared_capture passes it
monitor_index == IF CONFIG.monitor_index.set THEN CONFIG.monitor_index.n ELSE 0

\* len(output_mapping): the (device, output) pairs the probing found, in the order
\* it found them, or [(0, 0)] when it found none
NumOutputs == IF display.probed = 0 THEN 1 ELSE display.probed

\* the output asked for: monitor index N >= 1 is entry N - 1 of output_mapping,
\* anything else is entry 0
requested_output_idx(n) == IF n >= 1 THEN n - 1 ELSE 0

\* faulty variant of target_output_idx: monitor index N is taken as entry N
target_output_idx_no_offset(n) ==
    IF n >= NumOutputs THEN NumOutputs - 1 ELSE IF n >= 1 THEN n ELSE 0

\* target_output_idx after `if target_output_idx >= len(output_mapping)`
target_output_idx(n) ==
    IF requested_output_idx(n) >= NumOutputs
    THEN NumOutputs - 1
    ELSE requested_output_idx(n)

\* print("dxcam: Requested output not available, using output ...") is reached
substitution_printed(n) == requested_output_idx(n) >= NumOutputs

\* self._use_dxcam at the end of __init__: use_dxcam and HAS_DXCAM, and the try
\* block went through to camera.start() without an exception
_use_dxcam == CONFIG.use_dxcam /\ display.dxcam = "ok"

\* self._local, a threading.local(): per worker thread of the executor its `sct`
\* attribute, 0 while the thread has none; a handle is named after the thread
\* that called mss.mss() to make it
NoHandles == [t \in 1..PoolSize |-> 0]

\* ScreenCapture.__init__: the fields the controller, the statistics, the pacing
\* and the backends use; frame_interval = 1.0 / fps, in microseconds; output is the
\* entry of output_mapping the camera was created on, -1 without a camera
ScreenCapture(id) ==
    [id                 |-> id,
     fps                |-> CONFIG.fps,
     base_quality       |-> CONFIG.quality,
     quality            |-> CONFIG.quality,
     max_bandwidth_kbps |-> CONFIG.max_bandwidth_kbps,
     adaptive           |-> CONFIG.adaptive,
     frame_interval     |-> 1000000 \div CONFIG.fps,
     bytes_sent         |-> 0,
     frame_count        |-> 0,
     _use_dxcam         |-> _use_dxcam,
     output             |-> IF _use_dxcam THEN target_output_idx(monitor_index) ELSE -1,
     substituted        |-> _use_dxcam /\ substitution_printed(monitor_index),
     _local             |-> NoHandles]

Max(a, b) == IF a >= b THEN a ELSE b
Min(a, b) == IF a <= b THEN a ELSE b

\* frame_size_kb > _target_frame_size_kb * 1.2, with frame_size_kb = len / 1024 and
\* _target_frame_size_kb = max_bandwidth_kbps / fps, multiplied out to integers
AboveBand(cap, len) == len * cap.fps * 10 > cap.max_bandwidth_kbps * 1024 * 12
\* frame_size_kb < _target_frame_size_kb * 0.7
BelowBand(cap, len) == len * cap.fps * 10 < cap.max_bandwidth_kbps * 1024 * 7

\* faulty variant of _adjust_quality: the adaptive flag is not looked at
_adjust_quality_ignores_flag(cap, len) ==
    IF AboveBand(cap, len) THEN Max(MinQuality, cap.quality - QualityDownStep)
    ELSE IF BelowBand(cap, len) THEN Min(cap.base_quality, cap.quality + QualityUpStep)
    ELSE cap.quality

\* faulty variant of _adjust_quality: the band is 0.5x to 1.5x of the target
_adjust_quality_wide_band(cap, len) ==
    IF ~cap.adaptive THEN cap.quality
    ELSE IF len * cap.fps * 10 > cap.max_bandwidth_kbps * 1024 * 15
    THEN Max(MinQuality, cap.quality - QualityDownStep)
    ELSE IF len * cap.fps * 10 < cap.max_bandwidth_kbps * 1024 * 5
    THEN Min(cap.base_quality, cap.quality + QualityUpStep)
    ELSE cap.quality

\* faulty variant of _adjust_quality: the quality is lowered without the floor
_adjust_quality_no_floor(cap, len) ==
    IF ~cap.adaptive THEN cap.quality
    ELSE IF AboveBand(cap, len) THEN cap.quality - QualityDownStep
    ELSE IF BelowBand(cap, len) THEN Min(cap.base_quality, cap.quality + QualityUpStep)
    ELSE cap.quality

\* ScreenCapture._adjust_quality: the quality after one call
_adjust_quality(cap, len) ==
    IF ~cap.adaptive THEN cap.quality
    ELSE IF AboveBand(cap, len) THEN Max(MinQuality, cap.quality - QualityDownStep)
    ELSE IF BelowBand(cap, len) THEN Min(cap.base_quality, cap.quality + QualityUpStep)
    ELSE cap.quality

\* faulty variant of AfterFrame: no `if frame_bytes`, an empty result is fed to
\* the controller and counted like a frame
AfterFrame_counts_empty(cap, len, tick) ==
    [cap EXCEPT !.quality = _adjust_quality(cap, len),
                !.bytes_sent = IF tick THEN 0 ELSE @ + len,
                !.frame_count = IF tick THEN 0 ELSE @ + 1]

\* capture_frame_async after the worker returned frame_bytes: the object afterwards.
\* tick: a second or more has passed since _last_bandwidth_check.
AfterFrame(cap, len, tick) ==
    IF len = 0 THEN cap
    ELSE [cap EXCEPT !.quality = _adjust_quality(cap, len),
                     !.bytes_sent = IF tick THEN 0 ELSE @ + len,
                     !.frame_count = IF tick THEN 0 ELSE @ + 1]

\* the window reset may happen at any frame and has happened after MaxWindowFrames
Ticks(cap) == IF cap.frame_count + 1 >= MaxWindowFrames THEN {TRUE} ELSE BOOLEAN

\* ScreenCapture.shutdown, called on the object with the given id
shutdown(id) == shutdowns' = [shutdowns EXCEPT ![id] = @ + 1]

----------------------------------------------------------------------------
(* The worker pool: one capture+encode job per pending capture_frame_async *)

NoJob ==
    [st |-> "none", cap |-> 0, len |-> 0, thread |-> 0, sct |-> 0, fresh |-> FALSE,
     err |-> "none"]

\* loop.run_in_executor(self._executor, self._capture_and_encode) on object id
Submitted(id) == [NoJob EXCEPT !.st = "queued", !.cap = id]

\* what cancelling the awaiting coroutine does to the job: a queued work item is
\* cancelled with its future and never runs, a running one cannot be interrupted
\* and runs on with nobody awaiting it, a finished one loses its result
Cancelled(j) ==
    IF j.st \in {"running", "orphan"} THEN [j EXCEPT !.st = "orphan"] ELSE NoJob

\* the jobs a worker thread of object id's executor is executing
Running(id) == {c \in Clients : job[c].st \in {"running", "orphan"} /\ job[c].cap = id}

\* the worker threads of object id's executor (capture_0, capture_1) that are not
\* executing a job: any of them may take the next work item
Idle(id) == {t \in 1..PoolSize : \A c \in Running(id) : job[c].thread # t}

\* faulty variant of _get_sct: the handle is kept in an attribute of the object,
\* which every thread sees, not in the thread-local storage
_get_sct_shared(local, t) ==
    IF \A u \in DOMAIN local : local[u] = 0 THEN [u \in DOMAIN local |-> t] ELSE local

\* ScreenCapture._get_sct called on thread t: self._local afterwards; the handle
\* returned is the thread's `sct` attribute then
_get_sct(local, t) == IF local[t] = 0 THEN [local EXCEPT ![t] = t] ELSE local

\* the fallback backend can grab, or the duplication backend is in use
CanCapture == _use_dxcam \/ display.mss_grabs

\* the steps of _capture_and_encode an exception can come from: the capture
\* (sct.grab, get_latest_frame) and _draw_cursor (get_cursor_pos, cv2.fillPoly,
\* cv2.polylines), which is reached only with a captured frame
Raising == IF CanCapture THEN {"capture", "overlay"} ELSE {"capture"}

\* cv2.imencode on an unchanging screen: the length of the JPEG at quality q
EncodedSize(q) == encoder.slope * q + (IF q >= encoder.knee THEN encoder.jump ELSE 0)

\* the byte lengths _capture_and_encode can return on object id: self.quality is
\* read through _encode_params; an object that is no longer the shared one keeps
\* the quality it had, which the model does not record
EncodedSizes(id) ==
    IF encoder.kind = "varying" THEN FrameSizes
    ELSE {EncodedSize(q) : q \in IF _shared_capture.id = id
                                 THEN {_shared_capture.quality} ELSE 1..100}

\* a worker thread of the job's executor that is idle takes the work item and
\* begins _capture_and_encode; with the fallback backend it fetches its handle with
\* _get_sct (the job of a handler that awaits it runs on the shared object)
JobStart(c) ==
    /\ job[c].st = "queued"
    /\ \E t \in Idle(job[c].cap) :
           IF _shared_capture.id = job[c].cap /\ ~_shared_capture._use_dxcam
           THEN LET local == _get_sct(_shared_capture._local, t)
                IN  /\ _shared_capture' = [_shared_capture EXCEPT !._local = local]
                    /\ job' = [job EXCEPT ![c] =
                                  [@ EXCEPT !.st = "running", !.thread = t,
                                            !.sct = local[t],
                                            !.fresh = (_shared_capture._local[t] = 0)]]
           ELSE /\ job' = [job EXCEPT ![c] = [@ EXCEPT !.st = "running", !.thread = t]]
                /\ UNCHANGED _shared_capture
    /\ UNCHANGED <<CONFIG, display, encoder, peer, _capture_ref_count, created,
                   shutdowns, pc, capture, task, released, transport, calls,
                   pace, cursor>>

\* _capture_and_encode returns: the encoded frame, or b"" (no frame, encode failed);
\* the thread is idle again
JobReturns(c) ==
    /\ job[c].st = "running"
    /\ CanCapture
    /\ \E len \in EncodedSizes(job[c].cap) :
           job' = [job EXCEPT ![c] = [Submitted(job[c].cap) EXCEPT !.st = "done", !.len = len]]
    /\ UNCHANGED <<CONFIG, display, encoder, peer,
                   _shared_capture, _capture_ref_count, created,
                   shutdowns, pc, capture, task, released, transport, calls,
                   pace, cursor>>

\* _capture_and_encode raises in one of its steps: nothing in it, in _capture_mss
\* or in _draw_cursor catches an exception, so the future gets it
JobRaises(c) ==
    /\ job[c].st = "running"
    /\ \E e \in Raising :
           job' = [job EXCEPT ![c] = [Submitted(job[c].cap) EXCEPT !.st = "failed", !.err = e]]
    /\ UNCHANGED <<CONFIG, display, encoder, peer,
                   _shared_capture, _capture_ref_count, created,
                   shutdowns, pc, capture, task, released, transport, calls,
                   pace, cursor>>

\* a job whose future was cancelled while it ran comes to its end; nobody reads it
OrphanEnds(c) ==
    /\ job[c].st = "orphan"
    /\ job' = [job EXCEPT ![c] = NoJob]
    /\ UNCHANGED <<CONFIG, display, encoder, peer,
                   _shared_capture, _capture_ref_count, created,
                   shutdowns, pc, capture, task, released, transport, calls,
                   pace, cursor>>

----------------------------------------------------------------------------
(* The shared capture *)

\* faulty variant of get_shared_capture: a new object for every client
get_always_creates(c) ==
    /\ _shared_capture' = ScreenCapture(created + 1)
    /\ created' = created + 1
    /\ _capture_ref_count' = _capture_ref_count + 1
    /\ capture' = [capture EXCEPT ![c] = _shared_capture'.id]

\* faulty variant of get_shared_capture: the count is raised only with a new object
get_counts_creation_only(c) ==
    /\ IF _shared_capture = None
       THEN /\ _shared_capture' = ScreenCapture(created + 1)
            /\ created' = created + 1
            /\ _capture_ref_count' = _capture_ref_count + 1
       ELSE UNCHANGED <<_shared_capture, created, _capture_ref_count>>
    /\ capture' = [capture EXCEPT ![c] = _shared_capture'.id]

get_shared_capture(c) ==
    /\ IF _shared_capture = None
       THEN /\ _shared_capture' = ScreenCapture(created + 1)
            /\ created' = created + 1
       ELSE UNCHANGED <<_shared_capture, created>>
    /\ _capture_ref_count' = _capture_ref_count + 1
    /\ capture' = [capture EXCEPT ![c] = _shared_capture'.id]

\* faulty variant of release_shared_capture: `< 0` in place of `<= 0`
release_off_by_one(c) ==
    /\ released' = [released EXCEPT ![c] = @ + 1]
    /\ IF _capture_ref_count - 1 < 0
       THEN /\ IF _shared_capture # None
               THEN /\ shutdown(_shared_capture.id)
                    /\ _shared_capture' = None
               ELSE UNCHANGED <<_shared_capture, shutdowns>>
            /\ _capture_ref_count' = 0
       ELSE /\ _capture_ref_count' = _capture_ref_count - 1
            /\ UNCHANGED <<_shared_capture, shutdowns>>

\* faulty variant of release_shared_capture: shutdown() on every release
release_always_shuts_down(c) ==
    /\ released' = [released EXCEPT ![c] = @ + 1]
    /\ IF _shared_capture # None
       THEN shutdown(_shared_capture.id)
       ELSE UNCHANGED shutdowns
    /\ IF _capture_ref_count - 1 <= 0
       THEN /\ _shared_capture' = None
            /\ _capture_ref_count' = 0
       ELSE /\ _capture_ref_count' = _capture_ref_count - 1
            /\ UNCHANGED _shared_capture

\* faulty variant of release_shared_capture: `<= 1` in place of `<= 0`
release_tears_down_early(c) ==
    /\ released' = [released EXCEPT ![c] = @ + 1]
    /\ IF _capture_ref_count - 1 <= 1
       THEN /\ IF _shared_capture # None
               THEN /\ shutdown(_shared_capture.id)
                    /\ _shared_capture' = None
               ELSE UNCHANGED <<_shared_capture, shutdowns>>
            /\ _capture_ref_count' = 0
       ELSE /\ _capture_ref_count' = _capture_ref_count - 1
            /\ UNCHANGED <<_shared_capture, shutdowns>>

\* faulty variant of release_shared_capture: the global is not cleared
release_keeps_singleton(c) ==
    /\ released' = [released EXCEPT ![c] = @ + 1]
    /\ IF _capture_ref_count - 1 <= 0
       THEN /\ IF _shared_capture # None
               THEN shutdown(_shared_capture.id)
               ELSE UNCHANGED shutdowns
            /\ _capture_ref_count' = 0
            /\ UNCHANGED _shared_capture
       ELSE /\ _capture_ref_count' = _capture_ref_count - 1
            /\ UNCHANGED <<_shared_capture, shutdowns>>

release_shared_capture(c) ==
    /\ released' = [released EXCEPT ![c] = @ + 1]
    /\ IF _capture_ref_count - 1 <= 0
       THEN /\ IF _shared_capture # None
               THEN /\ shutdown(_shared_capture.id)
                    /\ _shared_capture' = None
               ELSE UNCHANGED <<_shared_capture, shutdowns>>
            /\ _capture_ref_count' = 0
       ELSE /\ _capture_ref_count' = _capture_ref_count - 1
            /\ UNCHANGED <<_shared_capture, shutdowns>>

\* capture_frame_async resumes in client c with the worker's frame_bytes: self is
\* the object c holds
Resumed(c, len, tick) ==
    IF _shared_capture.id = capture[c]
    THEN AfterFrame(_shared_capture, len, tick)
    ELSE _shared_capture

----------------------------------------------------------------------------
(* The connections: client c is the c-th connection the two servers accept *)

\* the next connection is accepted and its handler task started
Accepted(c) ==
    /\ pc[c] = "idle"
    /\ \A d \in Clients : d < c => pc[d] # "idle"

----------------------------------------------------------------------------
(* The produce calls of a connection: capture.capture_frame_async() *)

NoCalls == [since_sent |-> 0, in_flight |-> 0, in_order |-> TRUE]

\* a handler calls capture.capture_frame_async()
Called(o) ==
    [o EXCEPT !.since_sent = Min(@ + 1, MaxSince), !.in_flight = @ + 1]

\* the call is over: it returned its frame, raised, or was cancelled
Returned(o) == [o EXCEPT !.in_flight = @ - 1]

\* the frame of a call is handed to the transport, `later` calls having been made
\* after that call: it is in order if its call came after the call of the frame
\* sent before it
Sent(o, later) ==
    [o EXCEPT !.in_order = @ /\ later < o.since_sent, !.since_sent = later]

----------------------------------------------------------------------------
(* What a transport has been given and is sending *)

Nothing == [size_bytes |-> <<>>, frame_data |-> 0]

\* faulty variant of to_bytes: byteorder='little'
to_bytes_little(n, length) == [i \in 1..length |-> (n \div 256^(i - 1)) % 256]

\* int.to_bytes(length, byteorder='big'), for 0 <= n < 256^length (it raises
\* OverflowError beyond, which no frame of a screen reaches with length 4)
to_bytes(n, length) == [i \in 1..length |-> (n \div 256^(length - i)) % 256]

\* writer.write(size_bytes + frame_data), frame_data being len bytes long
Record(len) == [size_bytes |-> to_bytes(len, 4), frame_data |-> len]

\* ws.send_bytes(frame_data): one binary message
Message(len) == [size_bytes |-> <<>>, frame_data |-> len]

\* the far end of a raw connection: "open"; "closed" when the peer has closed its
\* socket, which the handler, never reading, does not see, and writes still go
\* out; "resetting" when data was written to the closed peer and its reset is on
\* the way; "lost" when the reset has come in and drain() raises
Connected == "open"

\* writer.write(...) towards a peer that is p
Written(p) == IF p = "closed" THEN "resetting" ELSE p

----------------------------------------------------------------------------
(* Pacing: times in microseconds *)

\* time.perf_counter() - start_time at the end of a cycle, as the handlers see it
ElapsedTimes == {5000, 20000, 25000}

\* sleep_time = capture.frame_interval - elapsed
sleep_time(cap, elapsed) == cap.frame_interval - elapsed

\* faulty variant of Sleeps: asyncio.sleep is called whatever sleep_time is
Sleeps_unconditionally(cap, elapsed) == TRUE

\* `if sleep_time > 0`
Sleeps(cap, elapsed) == sleep_time(cap, elapsed) > 0

----------------------------------------------------------------------------
(* handle_raw_client: the length-prefixed socket *)

\* the end of a cycle of the raw loop, o being the calls of the connection so far:
\* asyncio.sleep(sleep_time) when sleep_time > 0, else the next cycle at once, which
\* submits the next capture and awaits it
RawPace(c, sleeps, o) ==
    /\ transport' = [transport EXCEPT ![c] = Nothing]
    /\ IF sleeps
       THEN /\ pc' = [pc EXCEPT ![c] = "raw_sleep"]
            /\ job' = [job EXCEPT ![c] = NoJob]
            /\ calls' = [calls EXCEPT ![c] = o]
       ELSE /\ pc' = [pc EXCEPT ![c] = "raw_await_frame"]
            /\ job' = [job EXCEPT ![c] = Submitted(capture[c])]
            /\ calls' = [calls EXCEPT ![c] = Called(o)]

\* the finally clause: release, writer.close(), await writer.wait_closed()
RawFinally(c) ==
    /\ release_shared_capture(c)
    /\ pc' = [pc EXCEPT ![c] = "raw_closing"]
    /\ job' = [job EXCEPT ![c] = Cancelled(@)]
    /\ transport' = [transport EXCEPT ![c] = Nothing]
    /\ calls' = [calls EXCEPT ![c] = IF pc[c] = "raw_await_frame" THEN Returned(@) ELSE @]

\* a connection is accepted: acquire, then the first capture is awaited
RawConnect(c) ==
    /\ Accepted(c)
    /\ get_shared_capture(c)
    /\ pc' = [pc EXCEPT ![c] = "raw_await_frame"]
    /\ job' = [job EXCEPT ![c] = Submitted(capture'[c])]
    /\ calls' = [calls EXCEPT ![c] = Called(@)]
    /\ UNCHANGED <<CONFIG, display, encoder, peer,
                   shutdowns, task, released, transport, pace, cursor>>

\* faulty variant of RawFrame: an empty frame is written like any other, as a
\* record of length 0
RawFrame_writes_empty(c) ==
    /\ pc[c] = "raw_await_frame"
    /\ job[c].st = "done"
    /\ \E tick \in Ticks(_shared_capture) :
           _shared_capture' = Resumed(c, job[c].len, tick)
    /\ pc' = [pc EXCEPT ![c] = "raw_drain"]
    /\ job' = [job EXCEPT ![c] = NoJob]
    /\ transport' = [transport EXCEPT ![c] = Record(job[c].len)]
    /\ peer' = [peer EXCEPT ![c] = Written(@)]
    /\ calls' = [calls EXCEPT ![c] = Sent(Returned(@), 0)]
    /\ UNCHANGED <<CONFIG, display, encoder, _capture_ref_count, created, shutdowns,
                   capture, task, released, pace, cursor>>

\* the awaited capture returns frame_data: statistics and quality are updated, a
\* non-empty frame is written with its length prefix and drained, an empty one is
\* skipped and the cycle goes on to its pacing
RawFrame(c) ==
    /\ pc[c] = "raw_await_frame"
    /\ job[c].st = "done"
    /\ \E tick \in Ticks(_shared_capture) :
           _shared_capture' = Resumed(c, job[c].len, tick)
    /\ IF job[c].len > 0
       THEN /\ pc' = [pc EXCEPT ![c] = "raw_drain"]
            /\ job' = [job EXCEPT ![c] = NoJob]
            /\ transport' = [transport EXCEPT ![c] = Record(job[c].len)]
            /\ peer' = [peer EXCEPT ![c] = Written(@)]
            /\ calls' = [calls EXCEPT ![c] = Sent(Returned(@), 0)]
       ELSE /\ \E elapsed \in ElapsedTimes :
                   RawPace(c, Sleeps(_shared_capture, elapsed), Returned(calls[c]))
            /\ UNCHANGED peer
    /\ UNCHANGED <<CONFIG, display, encoder, _capture_ref_count, created, shutdowns,
                   capture, task, released, pace, cursor>>

\* the awaited capture raises: except Exception, then finally
RawFrameRaises(c) ==
    /\ pc[c] = "raw_await_frame"
    /\ job[c].st = "failed"
    /\ RawFinally(c)
    /\ UNCHANGED <<CONFIG, display, encoder, peer,
                   created, capture, task, pace, cursor>>

\* writer.drain() returns, the connection not being lost: pacing
RawDrained(c) ==
    /\ pc[c] = "raw_drain"
    /\ peer[c] # "lost"
    /\ \E elapsed \in ElapsedTimes :
           RawPace(c, Sleeps(_shared_capture, elapsed), calls[c])
    /\ UNCHANGED <<CONFIG, display, encoder, peer,
                   _shared_capture, _capture_ref_count, created,
                   shutdowns, capture, task, released, pace, cursor>>

\* writer.drain() raises ConnectionResetError, BrokenPipeError or another error
RawDrainRaises(c) ==
    /\ pc[c] = "raw_drain"
    /\ RawFinally(c)
    /\ UNCHANGED <<CONFIG, display, encoder, peer,
                   created, capture, task, pace, cursor>>

\* the pacing sleep is over: the next cycle submits its capture and awaits it
RawWakes(c) ==
    /\ pc[c] = "raw_sleep"
    /\ RawPace(c, FALSE, calls[c])
    /\ UNCHANGED <<CONFIG, display, encoder, peer,
                   _shared_capture, _capture_ref_count, created,
                   shutdowns, capture, task, released, pace, cursor>>

\* faulty variant of RawCancelled: the release is not in a finally clause, and
\* CancelledError leaves the handler without it
RawCancelledEscapes(c) ==
    /\ pc[c] \in {"raw_await_frame", "raw_drain", "raw_sleep"}
    /\ pc' = [pc EXCEPT ![c] = "done"]
    /\ job' = [job EXCEPT ![c] = Cancelled(@)]
    /\ UNCHANGED <<CONFIG, display, encoder, peer,
                   _shared_capture, _capture_ref_count, created,
                   shutdowns, capture, task, released, transport, calls, pace, cursor>>

\* the handler's task is cancelled while it awaits the frame, the drain or the sleep
RawCancelled(c) ==
    /\ pc[c] \in {"raw_await_frame", "raw_drain", "raw_sleep"}
    /\ RawFinally(c)
    /\ UNCHANGED <<CONFIG, display, encoder, peer,
                   created, capture, task, pace, cursor>>

\* the peer of a raw connection closes its socket while the handler is in its loop
PeerCloses(c) ==
    /\ pc[c] \in {"raw_await_frame", "raw_drain", "raw_sleep"}
    /\ peer[c] = Connected
    /\ peer' = [peer EXCEPT ![c] = "closed"]
    /\ UNCHANGED <<CONFIG, display, encoder, _shared_capture, _capture_ref_count,
                   created, shutdowns, pc, capture, task, job, released, transport,
                   calls, pace, cursor>>

\* the reset that answers data written to a closed peer comes in: the transport
\* has lost the connection
ConnectionLost(c) ==
    /\ peer[c] = "resetting"
    /\ peer' = [peer EXCEPT ![c] = "lost"]
    /\ UNCHANGED <<CONFIG, display, encoder, _shared_capture, _capture_ref_count,
                   created, shutdowns, pc, capture, task, job, released, transport,
                   calls, pace, cursor>>

\* writer.wait_closed() returns, raises or is cancelled: the handler ends
RawClosed(c) ==
    /\ pc[c] = "raw_closing"
    /\ pc' = [pc EXCEPT ![c] = "done"]
    /\ UNCHANGED <<CONFIG, display, encoder, peer,
                   _shared_capture, _capture_ref_count, created,
                   shutdowns, capture, task, job, released, transport, calls,
                   pace, cursor>>

----------------------------------------------------------------------------
(* websocket_handler: one binary message per frame, the next capture pipelined *)

NoTask == [st |-> "none", len |-> 0]
\* asyncio.create_task(capture.capture_frame_async()): scheduled, not yet started
NewTask == [st |-> "created", len |-> 0]
\* next_frame_task.cancel(): the cancellation is requested, the task not yet done
Cancelling == [st |-> "cancelling", len |-> 0]
CancelledTask == [st |-> "cancelled", len |-> 0]

\* not next_frame_task.done(), no cancellation requested
Pending(t) == t.st \in {"created", "waiting"}

\* release_shared_capture and the end of the handler, next_frame_task being t and
\* its job j
WsRelease(c, t, j) ==
    /\ release_shared_capture(c)
    /\ pc' = [pc EXCEPT ![c] = "done"]
    /\ task' = [task EXCEPT ![c] = t]
    /\ job' = [job EXCEPT ![c] = j]
    /\ transport' = [transport EXCEPT ![c] = Nothing]

\* faulty variant of WsFinally: the task is cancelled but not awaited before the
\* release
WsFinally_releases_first(c, t) ==
    IF Pending(t)
    THEN WsRelease(c, Cancelling, Cancelled(job[c]))
    ELSE WsRelease(c, t, job[c])

\* the finally clause, next_frame_task being t: a task that is not done is
\* cancelled and awaited before the release
WsFinally(c, t) ==
    IF Pending(t)
    THEN /\ pc' = [pc EXCEPT ![c] = "ws_await_cancel"]
         /\ task' = [task EXCEPT ![c] = Cancelling]
         /\ job' = [job EXCEPT ![c] = Cancelled(@)]
         /\ transport' = [transport EXCEPT ![c] = Nothing]
         /\ UNCHANGED <<_shared_capture, _capture_ref_count, shutdowns, released>>
    ELSE WsRelease(c, t, job[c])

\* `while not ws.closed`: the loop ends, or awaits next_frame_task
WsLoopTop(c, t, closed) ==
    IF closed
    THEN WsFinally(c, t)
    ELSE /\ pc' = [pc EXCEPT ![c] = "ws_await_task"]
         /\ task' = [task EXCEPT ![c] = t]
         /\ transport' = [transport EXCEPT ![c] = Nothing]
         /\ UNCHANGED <<job, _shared_capture, _capture_ref_count, shutdowns, released>>

\* the end of a cycle: asyncio.sleep(sleep_time) when sleep_time > 0, else the
\* loop condition at once
WsPace(c, t, sleeps, closed) ==
    IF sleeps
    THEN /\ pc' = [pc EXCEPT ![c] = "ws_sleep"]
         /\ task' = [task EXCEPT ![c] = t]
         /\ transport' = [transport EXCEPT ![c] = Nothing]
         /\ UNCHANGED <<job, _shared_capture, _capture_ref_count, shutdowns, released>>
    ELSE WsLoopTop(c, t, closed)

\* a WebSocket is prepared: acquire, create the first task, enter the loop
WsConnect(c) ==
    /\ Accepted(c)
    /\ get_shared_capture(c)
    /\ pc' = [pc EXCEPT ![c] = "ws_await_task"]
    /\ task' = [task EXCEPT ![c] = NewTask]
    /\ calls' = [calls EXCEPT ![c] = Called(@)]
    /\ UNCHANGED <<CONFIG, display, encoder, peer,
                   shutdowns, job, released, transport, pace, cursor>>

\* next_frame_task runs its first step: capture_frame_async submits the job
TaskStarts(c) ==
    /\ task[c].st = "created"
    /\ task' = [task EXCEPT ![c].st = "waiting"]
    /\ job' = [job EXCEPT ![c] = Submitted(capture[c])]
    /\ UNCHANGED <<CONFIG, display, encoder, peer,
                   _shared_capture, _capture_ref_count, created,
                   shutdowns, pc, capture, released, transport, calls, pace, cursor>>

\* next_frame_task resumes with the worker's frame_bytes and finishes with them
TaskFrame(c) ==
    /\ task[c].st = "waiting"
    /\ job[c].st = "done"
    /\ \E tick \in Ticks(_shared_capture) :
           _shared_capture' = Resumed(c, job[c].len, tick)
    /\ task' = [task EXCEPT ![c] = [st |-> "done", len |-> job[c].len]]
    /\ job' = [job EXCEPT ![c] = NoJob]
    /\ calls' = [calls EXCEPT ![c] = Returned(@)]
    /\ UNCHANGED <<CONFIG, display, encoder, peer,
                   _capture_ref_count, created, shutdowns, pc,
                   capture, released, transport, pace, cursor>>

\* next_frame_task resumes with the worker's exception and finishes with it
TaskRaises(c) ==
    /\ task[c].st = "waiting"
    /\ job[c].st = "failed"
    /\ task' = [task EXCEPT ![c] = [st |-> "failed", len |-> 0]]
    /\ job' = [job EXCEPT ![c] = NoJob]
    /\ calls' = [calls EXCEPT ![c] = Returned(@)]
    /\ UNCHANGED <<CONFIG, display, encoder, peer,
                   _shared_capture, _capture_ref_count, created,
                   shutdowns, pc, capture, released, transport, pace, cursor>>

\* next_frame_task, its cancellation requested, runs its next step: CancelledError
\* is thrown into capture_frame_async and the task is done, cancelled
TaskCancelled(c) ==
    /\ task[c].st = "cancelling"
    /\ task' = [task EXCEPT ![c] = CancelledTask]
    /\ calls' = [calls EXCEPT ![c] = Returned(@)]
    /\ UNCHANGED <<CONFIG, display, encoder, peer,
                   _shared_capture, _capture_ref_count, created,
                   shutdowns, pc, capture, job, released, transport, pace, cursor>>

\* faulty variant of WsFrame: no new task is created, the loop awaits the same
\* finished task again
WsFrame_awaits_same_task(c) ==
    /\ pc[c] = "ws_await_task"
    /\ task[c].st = "done"
    /\ IF task[c].len > 0
       THEN /\ pc' = [pc EXCEPT ![c] = "ws_send"]
            /\ task' = task
            /\ transport' = [transport EXCEPT ![c] = Message(task[c].len)]
            /\ calls' = [calls EXCEPT ![c] = Sent(@, 0)]
            /\ UNCHANGED <<job, _shared_capture, _capture_ref_count, shutdowns, released>>
       ELSE /\ calls' = calls
            /\ \E elapsed \in ElapsedTimes, closed \in BOOLEAN :
                   WsPace(c, task[c], Sleeps(_shared_capture, elapsed), closed)
    /\ UNCHANGED <<CONFIG, display, encoder, peer, created, capture, pace, cursor>>

\* faulty variant of WsFrame: the next task is created only after the send
WsFrame_sends_first(c) ==
    /\ pc[c] = "ws_await_task"
    /\ task[c].st = "done"
    /\ IF task[c].len > 0
       THEN /\ pc' = [pc EXCEPT ![c] = "ws_send"]
            /\ task' = [task EXCEPT ![c] = NoTask]
            /\ transport' = [transport EXCEPT ![c] = Message(task[c].len)]
            /\ calls' = [calls EXCEPT ![c] = Sent(@, 0)]
            /\ UNCHANGED <<job, _shared_capture, _capture_ref_count, shutdowns, released>>
       ELSE /\ calls' = [calls EXCEPT ![c] = Called(@)]
            /\ \E elapsed \in ElapsedTimes, closed \in BOOLEAN :
                   WsPace(c, NewTask, Sleeps(_shared_capture, elapsed), closed)
    /\ UNCHANGED <<CONFIG, display, encoder, peer, created, capture, pace, cursor>>

\* `await next_frame_task` returns frame_data: the next task is created, a non-empty
\* frame is sent, an empty one is skipped and the cycle goes on to its pacing
WsFrame(c) ==
    /\ pc[c] = "ws_await_task"
    /\ task[c].st = "done"
    /\ IF task[c].len > 0
       THEN /\ pc' = [pc EXCEPT ![c] = "ws_send"]
            /\ task' = [task EXCEPT ![c] = NewTask]
            /\ transport' = [transport EXCEPT ![c] = Message(task[c].len)]
            /\ calls' = [calls EXCEPT ![c] = Sent(Called(@), 1)]
            /\ UNCHANGED <<job, _shared_capture, _capture_ref_count, shutdowns, released>>
       ELSE /\ calls' = [calls EXCEPT ![c] = Called(@)]
            /\ \E elapsed \in ElapsedTimes, closed \in BOOLEAN :
                   WsPace(c, NewTask, Sleeps(_shared_capture, elapsed), closed)
    /\ UNCHANGED <<CONFIG, display, encoder, peer, created, capture, pace, cursor>>

\* `await next_frame_task` raises the task's exception, or the CancelledError of a
\* task cancelled with the handler: except, then finally
WsFrameRaises(c) ==
    /\ pc[c] = "ws_await_task"
    /\ task[c].st \in {"failed", "cancelled"}
    /\ WsFinally(c, task[c])
    /\ UNCHANGED <<CONFIG, display, encoder, peer,
                   created, capture, calls, pace, cursor>>

\* ws.send_bytes returns: pacing
WsSent(c) ==
    /\ pc[c] = "ws_send"
    /\ \E elapsed \in ElapsedTimes, closed \in BOOLEAN :
           WsPace(c, task[c], Sleeps(_shared_capture, elapsed), closed)
    /\ UNCHANGED <<CONFIG, display, encoder, peer,
                   created, capture, calls, pace, cursor>>

\* ws.send_bytes raises: ConnectionResetError breaks the loop, any other error is
\* caught by except Exception; both go on to finally
WsSendRaises(c) ==
    /\ pc[c] = "ws_send"
    /\ WsFinally(c, task[c])
    /\ UNCHANGED <<CONFIG, display, encoder, peer,
                   created, capture, calls, pace, cursor>>

\* the pacing sleep is over: the loop condition
WsWakes(c) ==
    /\ pc[c] = "ws_sleep"
    /\ \E closed \in BOOLEAN : WsLoopTop(c, task[c], closed)
    /\ UNCHANGED <<CONFIG, display, encoder, peer,
                   created, capture, calls, pace, cursor>>

\* the handler's task is cancelled.  While it awaits next_frame_task the
\* cancellation is passed on to that task and the handler resumes when the task
\* is done (WsFrameRaises); if the task is done already, CancelledError is raised
\* in the handler and finally finds it done.  While the handler awaits the send or
\* the sleep, finally finds the task as it is.
WsCancelled(c) ==
    /\ \/ /\ pc[c] = "ws_await_task"
          /\ IF Pending(task[c])
             THEN /\ task' = [task EXCEPT ![c] = Cancelling]
                  /\ job' = [job EXCEPT ![c] = Cancelled(@)]
                  /\ UNCHANGED <<pc, transport, _shared_capture, _capture_ref_count,
                                 shutdowns, released>>
             ELSE /\ task[c].st # "cancelling"
                  /\ WsRelease(c, task[c], job[c])
       \/ /\ pc[c] \in {"ws_send", "ws_sleep"}
          /\ WsFinally(c, task[c])
    /\ UNCHANGED <<CONFIG, display, encoder, peer,
                   created, capture, calls, pace, cursor>>

\* the await of the cancelled next_frame_task raises CancelledError once the task
\* is done: it is swallowed and the release follows
WsCancelAwaited(c) ==
    /\ pc[c] = "ws_await_cancel"
    /\ task[c].st = "cancelled"
    /\ WsRelease(c, task[c], job[c])
    /\ UNCHANGED <<CONFIG, display, encoder, peer,
                   created, capture, calls, pace, cursor>>

----------------------------------------------------------------------------
(* ScreenCapture._draw_cursor: the pointer glyph on a captured, scaled frame *)

\* int(a / b) for b > 0: Python's int() truncates towards zero
Trunc(a, b) == IF a >= 0 THEN a \div b ELSE -((-a) \div b)

\* self.scaled_width = int(region["width"] * scale), scale being scale8 / 8
scaled_width(cur) == Trunc(cur.region.width * cur.scale8, 8)
scaled_height(cur) == Trunc(cur.region.height * cur.scale8, 8)

\* _draw_cursor with get_cursor_pos() returning (cursor_x, cursor_y): the polygon
\* handed to cv2.fillPoly and cv2.polylines, or <<>> when nothing is drawn
_draw_cursor(cur) ==
    LET rel_x == Trunc((cur.cursor_x - cur.region.left) * cur.scale8, 8)
        rel_y == Trunc((cur.cursor_y - cur.region.top) * cur.scale8, 8)
        size == Trunc(16 * cur.scale8, 8)
    IN  IF /\ 0 <= rel_x /\ rel_x < scaled_width(cur)
           /\ 0 <= rel_y /\ rel_y < scaled_height(cur)
           /\ size >= 4
        THEN << <<rel_x, rel_y>>,
                <<rel_x, rel_y + size>>,
                <<rel_x + Trunc(size * 6, 10), rel_y + Trunc(size * 3, 4)>> >>
        ELSE <<>>

\* the overlay step of _capture_and_encode on one frame
DrawCursor ==
    /\ ~cursor.drawn
    /\ cursor' = [cursor EXCEPT !.pts = _draw_cursor(cursor), !.drawn = TRUE]
    /\ UNCHANGED <<CONFIG, display, encoder, peer,
                   _shared_capture, _capture_ref_count, created,
                   shutdowns, pc, capture, task, job, released, transport, calls,
                   pace>>

----------------------------------------------------------------------------
(* The end of one cycle of a delivery loop *)

\* elapsed, sleep_time and the asyncio.sleep(sleep_time) of the cycle
PaceCycle ==
    /\ ~pace.done
    /\ LET cap == ScreenCapture(1)
       IN  pace' = [pace EXCEPT
                      !.done = TRUE,
                      !.slept = Sleeps(cap, pace.elapsed),
                      !.delay = IF Sleeps(cap, pace.elapsed)
                                THEN sleep_time(cap, pace.elapsed) ELSE 0]
    /\ UNCHANGED <<CONFIG, display, encoder, peer,
                   _shared_capture, _capture_ref_count, created,
                   shutdowns, pc, capture, task, job, released, transport, calls,
                   cursor>>

----------------------------------------------------------------------------
(* The server: any number of clients of both kinds, a screen that changes *)

\* main(): CONFIG from the arguments
Configs ==
    [quality : BaseQualities, adaptive : BOOLEAN, fps : FpsChoices,
     max_bandwidth_kbps : BandwidthChoices, use_dxcam : {TRUE},
     monitor_index : {Unset}]

\* a machine with dxcam installed and working on its one output, and mss working
Duplicating == [dxcam |-> "ok", probed |-> 1, mss_grabs |-> TRUE]

Varying == [kind |-> "varying", slope |-> 0, knee |-> 0, jump |-> 0]

\* no cycle end and no overlay under examination
NotPaced == [elapsed |-> 0, slept |-> FALSE, delay |-> 0, done |-> TRUE]
NoCursor ==
    [region |-> [left |-> 0, top |-> 0, width |-> 0, height |-> 0], scale8 |-> 8,
     cursor_x |-> 0, cursor_y |-> 0, pts |-> <<>>, drawn |-> TRUE]

\* the globals and the connections when run_servers starts
Started ==
    /\ _shared_capture = None
    /\ _capture_ref_count = 0
    /\ created = 0
    /\ shutdowns = [p \in Clients |-> 0]
    /\ pc = [c \in Clients |-> "idle"]
    /\ capture = [c \in Clients |-> 0]
    /\ task = [c \in Clients |-> NoTask]
    /\ job = [c \in Clients |-> NoJob]
    /\ released = [c \in Clients |-> 0]
    /\ transport = [c \in Clients |-> Nothing]
    /\ peer = [c \in Clients |-> Connected]
    /\ calls = [c \in Clients |-> NoCalls]

Init ==
    /\ CONFIG \in Configs
    /\ display = Duplicating
    /\ encoder = Varying
    /\ Started
    /\ pace = NotPaced
    /\ cursor = NoCursor

Next ==
    \E c \in Clients :
        \/ JobStart(c) \/ JobReturns(c) \/ JobRaises(c) \/ OrphanEnds(c)
        \/ RawConnect(c) \/ RawFrame(c) \/ RawFrameRaises(c) \/ RawDrained(c)
        \/ RawDrainRaises(c) \/ RawWakes(c) \/ RawCancelled(c) \/ RawClosed(c)
        \/ WsConnect(c) \/ TaskStarts(c) \/ TaskFrame(c) \/ TaskRaises(c)
        \/ TaskCancelled(c)
        \/ WsFrame(c) \/ WsFrameRaises(c) \/ WsSent(c) \/ WsSendRaises(c)
        \/ WsWakes(c) \/ WsCancelled(c) \/ WsCancelAwaited(c)

Spec == Init /\ [][Next]_vars

----------------------------------------------------------------------------
(* The server when no handler task is ever cancelled: loops end only by a failed
   send, a failed capture or a closed WebSocket *)

NextNoCancel ==
    \E c \in Clients :
        \/ JobStart(c) \/ JobReturns(c) \/ JobRaises(c) \/ OrphanEnds(c)
        \/ RawConnect(c) \/ RawFrame(c) \/ RawFrameRaises(c) \/ RawDrained(c)
        \/ RawDrainRaises(c) \/ RawWakes(c) \/ RawClosed(c)
        \/ WsConnect(c) \/ TaskStarts(c) \/ TaskFrame(c) \/ TaskRaises(c)
        \/ TaskCancelled(c)
        \/ WsFrame(c) \/ WsFrameRaises(c) \/ WsSent(c) \/ WsSendRaises(c)
        \/ WsWakes(c) \/ WsCancelAwaited(c)

SpecNoCancel == Init /\ [][NextNoCancel]_vars

----------------------------------------------------------------------------
(* One raw client that streams an unchanging screen for ever: every capture is
   encoded by an encoder whose output size is non-decreasing in the quality, and
   every frame goes through _adjust_quality *)

\* size = slope * quality, plus jump from quality knee on
Slopes == {10, 50, 150, 1024}
Knees == {50}
Jumps == {0, 50000}
StaticEncoders == [kind : {"static"}, slope : Slopes, knee : Knees, jump : Jumps]

\* CONFIG["quality"] = max(1, min(100, args.quality))
StaticConfigs ==
    [quality : 1..100, adaptive : BOOLEAN, fps : FpsChoices,
     max_bandwidth_kbps : BandwidthChoices, use_dxcam : {TRUE},
     monitor_index : {Unset}]

InitStatic ==
    /\ CONFIG \in StaticConfigs
    /\ display = Duplicating
    /\ encoder \in StaticEncoders
    /\ Started
    /\ pace = NotPaced
    /\ cursor = NoCursor

NextStatic ==
    \E c \in {1} :
        \/ RawConnect(c) \/ JobStart(c) \/ JobReturns(c)
        \/ RawFrame(c) \/ RawDrained(c) \/ RawWakes(c)

\* the event loop keeps running the handler and the worker finishes its jobs
SpecStatic == InitStatic /\ [][NextStatic]_vars /\ WF_vars(NextStatic)

----------------------------------------------------------------------------
(* The cycle end of a loop for frame rates of 25 and 50 and elapsed times from
   nothing to more than a frame interval *)

PaceFps == {25, 50}
PaceElapsed == {1000 * k : k \in 0..45} \cup {19999, 20001, 39999, 40001}

InitPacing ==
    /\ CONFIG \in [quality : {50}, adaptive : {TRUE}, fps : PaceFps,
                   max_bandwidth_kbps : BandwidthChoices, use_dxcam : {TRUE},
                   monitor_index : {Unset}]
    /\ display = Duplicating
    /\ encoder = Varying
    /\ Started
    /\ pace \in [elapsed : PaceElapsed, slept : {FALSE}, delay : {0}, done : {FALSE}]
    /\ cursor = NoCursor

SpecPacing == InitPacing /\ [][PaceCycle]_vars

----------------------------------------------------------------------------
(* The overlay for pointers around the edges of a monitor of 1920 x 1080, the
   primary one or one to its right, left or below; --scale is clamped to
   0.1..1.0 by main and taken here from 1/8, 1/4, 1/2 and 1 *)

Scales8 == {1, 2, 4, 8}
Regions == [left : {-1920, 0, 1920}, top : {0, 1080}, width : {1920}, height : {1080}]
\* the pointer relative to the region's origin
PointerDX == {-9, -8, -2, -1, 0, 1, 1918, 1919, 1920, 1921}
PointerDY == {-2, -1, 0, 1, 1079, 1080}

Pointers ==
    { [region |-> r, scale8 |-> s, cursor_x |-> r.left + dx, cursor_y |-> r.top + dy,
       pts |-> <<>>, drawn |-> FALSE] :
      r \in Regions, s \in Scales8, dx \in PointerDX, dy \in PointerDY }

InitCursor ==
    /\ CONFIG \in [quality : {50}, adaptive : {TRUE}, fps : FpsChoices,
                   max_bandwidth_kbps : BandwidthChoices, use_dxcam : {TRUE},
                   monitor_index : {Unset}]
    /\ display = Duplicating
    /\ encoder = Varying
    /\ Started
    /\ pace = NotPaced
    /\ cursor \in Pointers

SpecCursor == InitCursor /\ [][DrawCursor]_vars

----------------------------------------------------------------------------
(* The server on machines where the object ends on the fallback backend: started
   with --no-dxcam, or dxcam raising inside __init__; mss able to grab or not *)

FallbackConfigs ==
    [quality : {22}, adaptive : {TRUE}, fps : FpsChoices,
     max_bandwidth_kbps : BandwidthChoices, use_dxcam : BOOLEAN,
     monitor_index : {Unset}]

FallbackDisplays == [dxcam : {"ok", "fails"}, probed : {1}, mss_grabs : BOOLEAN]

InitFallback ==
    /\ CONFIG \in FallbackConfigs
    /\ display \in FallbackDisplays
    /\ CONFIG.use_dxcam <=> display.dxcam = "fails"
    /\ encoder = Varying
    /\ Started
    /\ pace = NotPaced
    /\ cursor = NoCursor

SpecFallback == InitFallback /\ [][Next]_vars

----------------------------------------------------------------------------
(* One raw client on the duplication backend, for every --monitor argument from
   -1 to MaxMonitor or none, on machines where the probing finds from no output
   to MaxOutputs outputs *)

MonitorArgs == {Unset} \cup {Monitor(n) : n \in -1..MaxMonitor}

OutputConfigs ==
    [quality : {22}, adaptive : {TRUE}, fps : FpsChoices,
     max_bandwidth_kbps : BandwidthChoices, use_dxcam : {TRUE},
     monitor_index : MonitorArgs]

OutputDisplays == [dxcam : {"ok"}, probed : 0..MaxOutputs, mss_grabs : {TRUE}]

InitOutputs ==
    /\ CONFIG \in OutputConfigs
    /\ display \in OutputDisplays
    /\ encoder = Varying
    /\ Started
    /\ pace = NotPaced
    /\ cursor = NoCursor

SpecOutputs == InitOutputs /\ [][NextStatic]_vars

----------------------------------------------------------------------------
(* Raw clients whose peers go away, under fair scheduling: the event loop runs
   every handler that can run, the worker threads take and finish their jobs, and
   the reset of a closed peer comes in.  Whether a capture returns a frame, b""
   or raises, and whether a peer closes, is not the scheduler's to decide. *)

\* the steps of client c's handler and of its job
RawProgress(c) ==
    \/ JobStart(c) \/ JobReturns(c) \/ JobRaises(c)
    \/ RawFrame(c) \/ RawFrameRaises(c) \/ RawDrained(c) \/ RawDrainRaises(c)
    \/ RawWakes(c) \/ RawClosed(c)

NextDisconnect ==
    \E c \in Clients :
        \/ RawConnect(c) \/ RawProgress(c) \/ PeerCloses(c) \/ ConnectionLost(c)

SpecDisconnect ==
    /\ Init
    /\ [][NextDisconnect]_vars
    /\ \A c \in Clients : WF_vars(RawProgress(c)) /\ WF_vars(ConnectionLost(c))

----------------------------------------------------------------------------
(* Properties *)

\* the clients that have acquired the shared capture and not released it
Holders == {c \in Clients : pc[c] # "idle" /\ released[c] = 0}

\* the ScreenCapture objects constructed and not shut down
Live == {p \in 1..created : shutdowns[p] = 0}

\* C1: in every reachable state the reference count is >= 0, and the shared
\* ScreenCapture exists (the global is not None, the object not shut down) if and
\* only if the reference count is > 0.
C1_RefCountAndProducer ==
    /\ _capture_ref_count >= 0
    /\ (_shared_capture # None) <=> (_capture_ref_count > 0)
    /\ _shared_capture # None => _shared_capture.id \in Live

\* one client has released while another still holds the capture
C1_Witness ==
    /\ _capture_ref_count = 1
    /\ _shared_capture # None
    /\ \E c \in Clients : released[c] = 1

\* C2: no ScreenCapture object is ever shut down twice, and once every client that
\* acquired has released, the reference count is 0 and every object that was
\* constructed has been shut down exactly once.
C2_ZeroAndOneTeardown ==
    /\ \A p \in Clients : shutdowns[p] <= 1 /\ (p > created => shutdowns[p] = 0)
    /\ Holders = {} =>
           /\ _capture_ref_count = 0
           /\ \A p \in 1..created : shutdowns[p] = 1

\* all clients held the same object at the same time and all have released
C2_Witness ==
    /\ \A c \in Clients : released[c] = 1 /\ capture[c] = 1
    /\ created = 1
    /\ shutdowns[1] = 1

\* C3: at most one ScreenCapture object is live at any time, and every client that
\* holds the capture holds that one object, the one the global refers to.
C3_OneLiveProducer ==
    /\ Cardinality(Live) <= 1
    /\ \A c \in Holders : capture[c] = _shared_capture.id /\ capture[c] \in Live

\* two clients hold the capture at the same time, after an earlier one was torn down
\* or not
C3_Witness ==
    \E c, d \in Holders : c # d /\ capture[c] = capture[d] /\ _capture_ref_count = 2

\* C4: a client calls release_shared_capture exactly once, when its loop ends and
\* never before: not at all while it is in its loop, once when it has left it, by
\* whatever way (loop end, transport error, other exception, cancellation at any
\* of its awaits).
C4_ReleaseExactlyOnce ==
    \A c \in Clients :
        /\ released[c] <= 1
        /\ pc[c] \in {"raw_closing", "done"} => released[c] = 1
        /\ pc[c] \notin {"idle", "raw_closing", "done"} => released[c] = 0
        /\ pc[c] = "idle" => released[c] = 0

\* a raw client was cancelled while its frame was being produced, a WebSocket client
\* left its loop with its next-frame task cancelled; both have released once
C4_Witness ==
    \E c, d \in Clients :
        /\ pc[c] = "raw_closing" /\ job[c].st = "orphan" /\ released[c] = 1
        /\ pc[d] = "done" /\ task[d].st = "cancelled" /\ released[d] = 1

\* C5: a release while another client still holds the capture only lowers the
\* reference count by one: the object stays the shared one, unchanged and not shut
\* down, and no other client's handler, task or job is touched; an object is shut
\* down only by the release that takes the count from 1 to 0.
C5_ReleaseLeavesOthersAlone ==
    [][ /\ \A c \in Clients :
              (released'[c] # released[c] /\ _capture_ref_count > 1) =>
                  /\ _capture_ref_count' = _capture_ref_count - 1
                  /\ _shared_capture' = _shared_capture
                  /\ shutdowns' = shutdowns
                  /\ \A d \in Clients \ {c} :
                         /\ pc'[d] = pc[d] /\ task'[d] = task[d]
                         /\ job'[d] = job[d] /\ capture'[d] = capture[d]
        /\ shutdowns' # shutdowns =>
              /\ _capture_ref_count = 1 /\ _capture_ref_count' = 0
              /\ _shared_capture' = None
      ]_vars

\* one of two WebSocket clients has gone; the count is 1, the object alive, and the
\* other client is sending a frame
C5_Witness ==
    \E c, d \in Clients :
        /\ pc[c] = "done" /\ task[c].st # "none" /\ released[c] = 1
        /\ pc[d] = "ws_send" /\ capture[d] = capture[c]
        /\ _capture_ref_count = 1
        /\ _shared_capture.id = capture[d] /\ capture[d] \in Live

\* C6: when the reference count is 0 the global is None, and the acquire that takes
\* the count from 0 constructs a new object: count 1, quality equal to the
\* configured base quality, byte and frame counters 0.
C6_FreshAfterZero ==
    /\ [](_capture_ref_count = 0 => _shared_capture = None)
    /\ [][ (_capture_ref_count = 0 /\ _capture_ref_count' # 0) =>
               /\ _capture_ref_count' = 1
               /\ _shared_capture'.id = created + 1
               /\ created' = created + 1
               /\ _shared_capture'.base_quality = CONFIG.quality
               /\ _shared_capture'.quality = CONFIG.quality
               /\ _shared_capture'.bytes_sent = 0
               /\ _shared_capture'.frame_count = 0
         ]_vars

\* a second object is the shared one, in its first state, after the first was torn
\* down, with the adaptive controller on
C6_Witness ==
    /\ created = 2 /\ shutdowns[1] = 1
    /\ _shared_capture.id = 2 /\ _capture_ref_count = 1
    /\ CONFIG.adaptive
    /\ _shared_capture.quality = CONFIG.quality

\* C7: the quality of the shared object stays within [20, base quality].
C7_QualityWithinBounds ==
    _shared_capture # None =>
        /\ MinQuality <= _shared_capture.quality
        /\ _shared_capture.quality <= _shared_capture.base_quality

\* C8: with adaptive mode off the quality of the shared object is the configured
\* base quality in every state, whatever frames its clients produce, and the
\* adaptive flag of an object never changes.
C8_FixedQualityWhenNotAdaptive ==
    /\ [](_shared_capture # None =>
              /\ _shared_capture.adaptive = CONFIG.adaptive
              /\ ~_shared_capture.adaptive =>
                     /\ _shared_capture.quality = CONFIG.quality
                     /\ _shared_capture.base_quality = CONFIG.quality)
    /\ [][ /\ CONFIG' = CONFIG
           /\ (_shared_capture # None /\ _shared_capture'.id = _shared_capture.id) =>
                  _shared_capture'.adaptive = _shared_capture.adaptive
         ]_vars

\* adaptive mode is off and a frame above the band has gone through the controller
C8_Witness ==
    /\ _shared_capture # None
    /\ ~_shared_capture.adaptive
    /\ _shared_capture.frame_count = 1
    /\ AboveBand(_shared_capture, _shared_capture.bytes_sent)

\* C10: no two capture+encode jobs of different ScreenCapture objects are executing
\* at the same time.
C10_OneProducerOnBackend ==
    \A c, d \in Clients :
        (job[c].st \in {"running", "orphan"} /\ job[d].st \in {"running", "orphan"})
            => job[c].cap = job[d].cap

\* the hysteresis band of the object's target frame size: 0.7 x target <= size <=
\* 1.2 x target, target = max_bandwidth_kbps / fps KB
WithinBand(cap, len) ==
    /\ len * cap.fps * 10 >= cap.max_bandwidth_kbps * 1024 * 7
    /\ len * cap.fps * 10 <= cap.max_bandwidth_kbps * 1024 * 12

\* adaptive mode is off, or the size the encoder gives at the current quality of the
\* shared object lies within the band
SizeWithinBand ==
    CONFIG.adaptive =>
        /\ _shared_capture # None
        /\ WithinBand(_shared_capture, EncodedSize(_shared_capture.quality))

\* C9 as stated: with adaptive mode on and a monotonic encoder, from some point on
\* the quality is one at which the encoded size lies within the band (which is
\* then a quality that _adjust_quality no longer changes).
C9_ConvergesIntoBand == <>[]SizeWithinBand

\* C9, amended: with adaptive mode on, an _adjust_quality call leaves the quality
\* unchanged only if the observed size lies within the band, or lies above it with
\* the quality at the minimum 20, or lies below it with the quality at the base
\* quality.
C9_UnchangedOnlyInBandOrClamped ==
    [][ \A c \in Clients :
          ( /\ pc[c] = "raw_await_frame" /\ pc'[c] = "raw_drain"
            /\ _shared_capture.adaptive
            /\ _shared_capture'.quality = _shared_capture.quality ) =>
              \/ WithinBand(_shared_capture, job[c].len)
              \/ /\ job[c].len * _shared_capture.fps * 10
                        > _shared_capture.max_bandwidth_kbps * 1024 * 12
                 /\ _shared_capture.quality = 20
              \/ /\ job[c].len * _shared_capture.fps * 10
                        < _shared_capture.max_bandwidth_kbps * 1024 * 7
                 /\ _shared_capture.quality = _shared_capture.base_quality
      ]_vars

\* the controller has lowered the quality to one, strictly between the minimum and
\* the base quality, at which the encoded size lies within the band, and a frame of
\* that size has just gone through it
C9_Witness ==
    /\ _shared_capture # None
    /\ _shared_capture.adaptive
    /\ _shared_capture.quality > 20
    /\ _shared_capture.quality < _shared_capture.base_quality
    /\ WithinBand(_shared_capture, EncodedSize(_shared_capture.quality))
    /\ _shared_capture.bytes_sent = EncodedSize(_shared_capture.quality)
    /\ pc[1] = "raw_drain"

\* C11: when a ScreenCapture object is shut down, no capture+encode job submitted
\* to its executor is still queued or running on a worker thread: no such job
\* belongs to an object that has been shut down.
C11_NoJobAtTeardown ==
    \A c \in Clients :
        job[c].st \in {"queued", "running", "orphan"} => shutdowns[job[c].cap] = 0

\* C12: a WebSocket handler that has called release_shared_capture has a
\* next_frame_task that is done (finished, failed or cancelled), never one that is
\* pending or whose cancellation is still under way; and a task it cancels in its
\* finally clause is awaited before the release.
C12_ReleaseAfterTaskDone ==
    /\ [](\A c \in Clients :
              (released[c] > 0 /\ task[c] # NoTask) =>
                  task[c].st \in {"done", "failed", "cancelled"})
    /\ [][ \A c \in Clients :
             (pc[c] = "ws_await_cancel" /\ released'[c] # released[c]) =>
                 task[c].st = "cancelled" ]_vars

\* a WebSocket handler whose send failed with the next frame being produced has
\* cancelled the task, awaited it and released, the worker still running the job
C12_Witness ==
    \E c \in Clients :
        /\ pc[c] = "done" /\ released[c] = 1
        /\ task[c].st = "cancelled" /\ job[c].st = "orphan"

\* C13: on every connection, of both kinds, each frame handed to the transport comes
\* from a produce call made after the call of the frame handed over before it: no
\* frame overtakes an earlier one and none is sent twice.
C13_FramesInOrder == \A c \in Clients : calls[c].in_order

\* a raw client and a WebSocket client are both sending a frame, the WebSocket
\* client with its next call already made
C13_Witness ==
    \E c, d \in Clients :
        /\ pc[c] = "raw_drain" /\ calls[c].since_sent = 0 /\ calls[c].in_order
        /\ pc[d] = "ws_send" /\ calls[d].since_sent = 1 /\ calls[d].in_order
        /\ _shared_capture.frame_count = 1

\* what the peer of a raw connection makes of the four bytes it reads first
BigEndian(h) == ((h[1] * 256 + h[2]) * 256 + h[3]) * 256 + h[4]

\* C14: what a raw connection writes for a frame of L bytes is four bytes, the
\* big-endian encoding of L, followed by the frame, L > 0 bytes long: the peer that
\* decodes the four bytes as a big-endian number gets L, the length of the frame
\* the handler obtained.
C14_LengthPrefixedRecord ==
    /\ [](\A c \in Clients :
              pc[c] = "raw_drain" =>
                  /\ Len(transport[c].size_bytes) = 4
                  /\ \A i \in 1..4 : transport[c].size_bytes[i] \in 0..255
                  /\ transport[c].frame_data > 0
                  /\ transport[c].size_bytes[1] < 64
                  /\ BigEndian(transport[c].size_bytes) = transport[c].frame_data)
    /\ [][ \A c \in Clients :
             (pc[c] = "raw_await_frame" /\ pc'[c] = "raw_drain") =>
                 transport'[c].frame_data = job[c].len ]_vars

\* a record whose length needs three bytes is being written
C14_Witness ==
    /\ pc[1] = "raw_drain"
    /\ transport[1].size_bytes[2] > 0
    /\ transport[1].size_bytes[3] > 0
    /\ transport[1].size_bytes[4] > 0

\* C15: at the end of a cycle asyncio.sleep is called if and only if the elapsed
\* time is less than the frame interval 1/fps, and then with frame interval minus
\* elapsed time: the time slept is max(0, interval - elapsed), never negative.
C15_SleepIsMaxZero ==
    (pace.done /\ pace # NotPaced) =>
        /\ pace.delay = Max(0, 1000000 \div CONFIG.fps - pace.elapsed)
        /\ pace.delay >= 0
        /\ pace.slept <=> pace.elapsed < 1000000 \div CONFIG.fps

\* 50 frames per second and 5 ms of production: 15 ms of sleep
C15_Witness ==
    /\ CONFIG.fps = 50 /\ pace.elapsed = 5000
    /\ pace.done /\ pace.slept /\ pace.delay = 15000

\* C16: a transport is only ever given a frame that is not empty; and when a handler
\* obtains an empty frame it writes or sends nothing, does not release, and goes on
\* to its pacing: to the sleep, to the next cycle, or, in the WebSocket loop, to the
\* end of the loop if the loop condition finds the WebSocket closed.
C16_EmptyFrameSkipped ==
    /\ [](\A c \in Clients :
              /\ pc[c] \in {"raw_drain", "ws_send"} => transport[c].frame_data > 0
              /\ transport[c] # Nothing => pc[c] \in {"raw_drain", "ws_send"})
    /\ [][ \A c \in Clients :
             /\ ( /\ pc[c] = "raw_await_frame"
                  /\ job[c].st = "done" /\ job[c].len = 0
                  /\ job'[c] # job[c] /\ released'[c] = released[c] ) =>
                    /\ pc'[c] \in {"raw_sleep", "raw_await_frame"}
                    /\ transport'[c] = Nothing
             /\ ( /\ pc[c] = "ws_await_task"
                  /\ task[c].st = "done" /\ task[c].len = 0
                  /\ task'[c] # task[c] ) =>
                    /\ pc'[c] \in {"ws_sleep", "ws_await_task", "ws_await_cancel"}
                    /\ transport'[c] = Nothing
                    /\ released'[c] = released[c]
         ]_vars

\* a raw client and a WebSocket client have each skipped an empty frame and are in
\* their next cycle
C16_Witness ==
    \E c, d \in Clients :
        /\ pc[c] = "raw_await_frame" /\ calls[c].since_sent = 2
        /\ pc[d] = "ws_await_task" /\ calls[d].since_sent = 2 /\ job[d].st = "running"

\* C17: if the pointer, scaled, lies outside the scaled frame (x - left) * scale in
\* [0, scaled_width), (y - top) * scale in [0, scaled_height), _draw_cursor draws
\* nothing.
C17_OutsideDrawsNothing ==
    ( /\ cursor.drawn /\ cursor # NoCursor
      /\ \/ cursor.cursor_x < cursor.region.left
         \/ cursor.cursor_y < cursor.region.top
         \/ (cursor.cursor_x - cursor.region.left) * cursor.scale8
                >= 8 * ((cursor.region.width * cursor.scale8) \div 8)
         \/ (cursor.cursor_y - cursor.region.top) * cursor.scale8
                >= 8 * ((cursor.region.height * cursor.scale8) \div 8) )
    => cursor.pts = <<>>

\* C18: with adaptive mode on, a frame of s KB, the target being t =
\* max_bandwidth_kbps / fps KB, takes the quality q to max(20, q - 5) if s > 1.2 t,
\* to min(base quality, q + 2) if s < 0.7 t, and leaves it as it is otherwise.
C18_AdjustStep ==
    [][ \A c \in Clients :
          ( /\ pc[c] = "raw_await_frame" /\ pc'[c] = "raw_drain"
            /\ _shared_capture.adaptive ) =>
              _shared_capture'.quality =
                  IF 10 * job[c].len * _shared_capture.fps
                         > 12 * 1024 * _shared_capture.max_bandwidth_kbps
                  THEN Max(20, _shared_capture.quality - 5)
                  ELSE IF 10 * job[c].len * _shared_capture.fps
                              < 7 * 1024 * _shared_capture.max_bandwidth_kbps
                  THEN Min(_shared_capture.base_quality, _shared_capture.quality + 2)
                  ELSE _shared_capture.quality
      ]_vars

\* a frame above the band has taken the quality from the base quality down by 5,
\* not as far as the minimum
C18_Witness ==
    /\ pc[1] = "raw_drain"
    /\ _shared_capture.adaptive
    /\ _shared_capture.quality = _shared_capture.base_quality - 5
    /\ _shared_capture.quality > 20
    /\ AboveBand(_shared_capture, transport[1].frame_data)

\* C19: when a produce call resumes with an empty result, the shared object is left
\* as it is (quality, byte counter, frame counter) and the call returns without an
\* error; with a frame of len > 0 bytes the frame is counted: either the window is
\* reset, or the frame counter goes up by 1 and the byte counter by len.
C19_EmptyResultFeedsNothing ==
    [][ \A c \in Clients :
          ( /\ job[c].st = "done"
            /\ \/ /\ pc[c] = "raw_await_frame"
                  /\ job'[c] # job[c] /\ released'[c] = released[c]
               \/ /\ task[c].st = "waiting" /\ task'[c].st = "done" ) =>
              IF job[c].len = 0
              THEN /\ _shared_capture' = _shared_capture
                   /\ pc'[c] \notin {"raw_closing", "done"}
                   /\ task'[c].st # "failed"
              ELSE \/ /\ _shared_capture'.frame_count = 0
                      /\ _shared_capture'.bytes_sent = 0
                   \/ /\ _shared_capture'.frame_count = _shared_capture.frame_count + 1
                      /\ _shared_capture'.bytes_sent
                             = _shared_capture.bytes_sent + job[c].len
      ]_vars

\* a produce call has just returned an empty result to its task, a frame being
\* counted in the window, with the controller on and the quality below the base
C19_Witness ==
    \E c \in Clients :
        /\ task[c] = [st |-> "done", len |-> 0]
        /\ _shared_capture # None
        /\ _shared_capture.adaptive
        /\ _shared_capture.frame_count = 1
        /\ _shared_capture.quality < _shared_capture.base_quality

\* C20: while a WebSocket handler sends frame N its next_frame_task exists: the
\* produce call for frame N+1 was made before the send began.  A new task is only
\* created when there is none or the one before is done, its result obtained; and
\* no connection has more than one produce call under way.
C20_PipelinedOneAhead ==
    /\ [](\A c \in Clients :
              /\ pc[c] = "ws_send" =>
                     task[c].st \in {"created", "waiting", "done", "failed"}
              /\ calls[c].in_flight <= 1
              /\ (task[c] # NoTask /\ job[c].st \in {"queued", "running", "done", "failed"})
                     => task[c].st = "waiting")
    /\ [][ \A c \in Clients :
             (task'[c].st = "created" /\ task'[c] # task[c]) =>
                 /\ task[c].st \in {"none", "done"}
                 /\ task[c].st = "done" => pc[c] = "ws_await_task"
         ]_vars

\* frame N is being sent while a worker produces frame N+1
C20_Witness ==
    \E c \in Clients :
        /\ pc[c] = "ws_send" /\ transport[c].frame_data > 0
        /\ task[c].st = "waiting" /\ job[c].st = "running"
        /\ calls[c].in_flight = 1

\* C21: if no capture backend is usable (the duplication backend is not in use or
\* failed to initialise, and the fallback backend cannot grab), the acquire call
\* fails: the reference count is not incremented, no producer is registered, and
\* no handler is handed a capture or makes a produce call.
C21_NoBackendNoAcquire ==
    ~CanCapture =>
        /\ _capture_ref_count = 0
        /\ _shared_capture = None
        /\ \A c \in Clients : capture[c] = 0 /\ calls[c] = NoCalls

\* C22: a failure inside the cursor overlay step (get_cursor_pos or the drawing
\* calls raising) never aborts the frame cycle: the raw handler that awaits a
\* frame whose overlay step raised does not leave its loop for its finally clause
\* and does not release the capture.
C22_OverlayFailureKeepsLoop ==
    [][ \A c \in Clients :
          ( /\ pc[c] = "raw_await_frame"
            /\ job[c].st = "failed" /\ job[c].err = "overlay" )
          => (pc'[c] # "raw_closing" /\ released'[c] = released[c]) ]_vars

\* the entry of output_mapping the --monitor argument asks for, and the number of
\* entries there are
AskedOutput ==
    IF CONFIG.monitor_index.set /\ CONFIG.monitor_index.n >= 1
    THEN CONFIG.monitor_index.n - 1
    ELSE 0
FoundOutputs == IF display.probed = 0 THEN 1 ELSE display.probed

\* C23 as amended: the duplication backend is created on entry N-1 of the
\* enumerated outputs for monitor index N >= 1 and on the first entry for monitor
\* index 0 or unset; when the requested entry is beyond the enumerated outputs,
\* the LAST enumerated output is selected and the substitution is reported.
C23_OutputSelectionLast ==
    (_shared_capture # None /\ _shared_capture._use_dxcam) =>
        IF AskedOutput < FoundOutputs
        THEN _shared_capture.output = AskedOutput /\ ~_shared_capture.substituted
        ELSE /\ _shared_capture.output = FoundOutputs - 1
             /\ _shared_capture.substituted

\* a camera created on the last of several outputs in place of one that does not
\* exist
C23_Witness ==
    /\ _shared_capture # None
    /\ _shared_capture._use_dxcam
    /\ AskedOutput >= FoundOutputs
    /\ FoundOutputs >= 2
    /\ _shared_capture.output = FoundOutputs - 1
    /\ _shared_capture.substituted

\* C23 as stated: monitor index N >= 1 selects entry N-1, monitor index 0 or unset
\* the first entry; when the requested entry is beyond the enumerated outputs, the
\* FIRST enumerated output is selected and the substitution is reported.
C23_OutputSelectionFirst ==
    (_shared_capture # None /\ _shared_capture._use_dxcam) =>
        IF AskedOutput < FoundOutputs
        THEN _shared_capture.output = AskedOutput /\ ~_shared_capture.substituted
        ELSE _shared_capture.output = 0 /\ _shared_capture.substituted

\* C24: with the fallback backend every job that a worker thread executes grabs
\* through the capture handle that this thread made itself, also when two jobs of
\* different clients run at the same time; a thread makes its handle on its first
\* grab and keeps that handle for all later grabs.
C24_HandlePerThread ==
    /\ [](\A c \in Clients :
             (job[c].st \in {"running", "orphan"} /\ ~_use_dxcam) =>
                 job[c].sct = job[c].thread)
    /\ [][ \A t \in 1..PoolSize :
              ( /\ _shared_capture # None
                /\ _shared_capture'.id = _shared_capture.id
                /\ _shared_capture._local[t] # 0 )
              => _shared_capture'._local[t] = _shared_capture._local[t] ]_vars

\* two jobs of different clients run at the same time on the two threads of one
\* executor, each on its thread's own handle, one of them made by an earlier grab
C24_Witness ==
    \E c, d \in Clients :
        /\ c # d
        /\ job[c].st = "running" /\ job[d].st = "running"
        /\ job[c].cap = job[d].cap
        /\ job[c].thread # job[d].thread
        /\ job[c].sct = job[c].thread /\ job[d].sct = job[d].thread
        /\ ~job[c].fresh

\* C25: under fair scheduling, once the peer of a raw client has disconnected,
\* that client's handler eventually leaves its loop and releases the capture, and
\* once the peers of all clients have disconnected the reference count eventually
\* is zero with the object torn down; also while every capture returns an empty
\* result.
C25_DisconnectLeadsToRelease ==
    /\ \A c \in Clients : (peer[c] # Connected) ~> (released[c] = 1)
    /\ (\A c \in Clients : peer[c] # Connected)
           ~> (_capture_ref_count = 0 /\ _shared_capture = None)

\* C26: in every reachable state the reference count is the number of client
\* sessions, raw and WebSocket, that have acquired the capture and not released
\* it; every release lowers a count of at least 1 by exactly 1, so the clamp to
\* zero never changes the count; and a produce call is only ever started on the
\* object that is the shared one and has not been shut down.
C26_CountIsHolders ==
    /\ [](_capture_ref_count = Cardinality(Holders))
    /\ [][ \A c \in Clients :
              /\ released'[c] # released[c] =>
                     /\ _capture_ref_count >= 1
                     /\ _capture_ref_count' = _capture_ref_count - 1
              /\ (job[c].st # "queued" /\ job'[c].st = "queued") =>
                     /\ job'[c].cap = capture'[c]
                     /\ _shared_capture'.id = job'[c].cap
                     /\ shutdowns'[job'[c].cap] = 0 ]_vars

\* a raw and a WebSocket session hold the capture together, each with a produce
\* call that has been started on it
C26_Witness ==
    \E c, d \in Holders :
        /\ pc[c] = "raw_await_frame" /\ job[c].st = "running"
        /\ task[d].st = "waiting" /\ job[d].st = "queued"
        /\ _capture_ref_count = 2
        /\ job[c].cap = job[d].cap

====
